---- MODULE Spec2Model ----
(***************************************************************************)
(* Model of src/data_manager/data_manager.py: the Data record, the         *)
(* Collection (a numpy object array of Data plus a length field) and the   *)
(* caller that holds what a Collection query returned; TestCase.evaluate   *)
(* and DataManager.test_dataset over the test cases of the Collection.     *)
(*                                                                         *)
(* Instants (naive local datetimes) and Unix timestamps are integers       *)
(* counted in seconds.  Python objects have identity: a Data object is an  *)
(* index into heap, a slot of the array holds such an index or None.  The  *)
(* heap holds exactly the objects the Collection references, numbered in   *)
(* the order of their first slot; an object the caller constructs enters   *)
(* the heap when it is passed to the Collection.                           *)
(***************************************************************************)
EXTENDS Integers, Sequences, FiniteSets, TLC

VARIABLES
    heap,    \* the Data objects the Collection references: object id -> field values
    data,    \* Collection.data: the backing array, a sequence of object ids / None
    length,  \* Collection.length
    ret,     \* what the last Collection call returned or raised; the caller holds it
    last,    \* the name of the last operation
    test_cases,  \* Collection.test_cases: the list of attached TestCase objects
    pc,      \* DataManager.test_dataset: the position of its loop, 0 when not running
    printed, \* DataManager.test_dataset: the TestCaseResults it has printed
    is_cached,     \* DataManager.is_cached
    energycharts,  \* DataManager.collections.energycharts: its data array
    frame    \* DataManager.load_data: the position of the running call

vars == <<heap, data, length, ret, last, test_cases, pc, printed,
          is_cached, energycharts, frame>>

\* the fields of the DataManager; the Collection of the variables above is
\* its collections.smard
manager == <<is_cached, energycharts, frame>>

\* what the operations on the array of the Collection leave alone
validation == <<test_cases, pc, printed, manager>>

(***************************************************************************)
(* Bounds of the model.                                                    *)
(***************************************************************************)
MaxLen == 3

\* the most test cases attached to the Collection
MaxCases == 2

(***************************************************************************)
(* Values.                                                                 *)
(***************************************************************************)
None == 0

FifteenMinutes == 15 * 60

\* datetime.fromtimestamp converts to the machine's local time: the model's
\* machine is one hour east of UTC.
LocalUtcOffset == 60 * 60

T0 == 10 * FifteenMinutes

\* the start instants the caller constructs Data objects with
Starts == {T0, T0 + FifteenMinutes}

\* the instants the caller queries
Instants == Starts \cup {T0 + 2 * FifteenMinutes}

\* the Unix timestamps the caller queries
Timestamps == {t - LocalUtcOffset : t \in Instants}

\* the values the caller assigns to production.pv
PvValues == {0, 5}

\* None where a float is expected
Unset == -1

EnergySources ==
    [pv |-> 0, wind_offshore |-> 0, wind_onshore |-> 0, biomass |-> 0,
     hydro |-> 0, other_renewables |-> 0, coal |-> 0, lignite |-> 0,
     gas |-> 0, other_conventionals |-> 0, nuclear |-> 0]

Consumption == [load |-> 0, residual |-> 0]

\* an object of a sub-record class: its __class__ and its fields
OfClass(class, fields) == [class |-> class] @@ fields

\* Data.Production(), Data.Power(), Data.Consumption(): every field 0.0
Production == OfClass("Production", EnergySources)

Power == OfClass("Power", EnergySources)

ConsumptionObject == OfClass("Consumption", Consumption)

\* mutant: __post_init__ left out, end stays None
DataOf_without_post_init(start, production, power, consumption) ==
    [start |-> start, end |-> Unset,
     production |-> production, power |-> power, consumption |-> consumption]

\* Data(start=start, production=..., power=..., consumption=...), then
\* __post_init__ sets end
DataOf(start, production, power, consumption) ==
    [start |-> start, end |-> start + FifteenMinutes,
     production |-> production, power |-> power, consumption |-> consumption]

\* Data(start=start): the default sub-records
Data(start) == DataOf(start, Production, Power, ConsumptionObject)

fromtimestamp(ts) == ts + LocalUtcOffset

(***************************************************************************)
(* What a call gives back to its caller.                                   *)
(***************************************************************************)
\* TestCaseResult(): every field None; result, a bool, is false-like until assigned
TestCaseResult ==
    [description |-> "", result |-> FALSE, expected_value |-> Unset,
     actual_value |-> Unset, timestamp |-> Unset]

NoRet ==
    [kind |-> "value", exc |-> "", ref |-> None, alias |-> FALSE,
     lo |-> 0, hi |-> 0, arr |-> <<>>, flag |-> FALSE, num |-> 0,
     tcr |-> TestCaseResult, obj |-> [start |-> Unset]]

\* return <object or None>
Returned(r) == [NoRet EXCEPT !.ref = r]

\* return <Data object the call has constructed>
ReturnedObject(o) == [NoRet EXCEPT !.kind = "object", !.obj = o]

\* raise <exception>
Raised(e) == [NoRet EXCEPT !.kind = "raise", !.exc = e]

\* return <array sharing the memory of self.data[lo:hi]>
View(lo, hi) == [NoRet EXCEPT !.kind = "array", !.alias = TRUE, !.lo = lo, !.hi = hi]

\* return <newly allocated array>
Fresh(a) == [NoRet EXCEPT !.kind = "array", !.arr = a]

ReturnedBool(b) == [NoRet EXCEPT !.kind = "bool", !.flag = b]

ReturnedInt(n) == [NoRet EXCEPT !.kind = "int", !.num = n]

(***************************************************************************)
(* numpy / Python helpers.                                                 *)
(***************************************************************************)
Refs == 1 .. Len(heap)

Slots == Refs \cup {None}

SeqsUpTo(S, n) == UNION {[1 .. k -> S] : k \in 0 .. n}

\* np.empty(size, dtype=Data): an object array, every slot None
np_empty(size) == [i \in 1 .. size |-> None]

\* a[index] on a one-dimensional array of n elements is legal for -n <= index < n
IndexInRange(index, n) == -n <= index /\ index < n

\* the 1-based position a legal index addresses
IndexPos(index, n) == (IF index < 0 THEN index + n ELSE index) + 1

\* a bound of the slice a[start:end], clamped as Python clamps it
SliceBound(i, n) ==
    IF i < 0 THEN (IF i + n < 0 THEN 0 ELSE i + n)
    ELSE (IF i > n THEN n ELSE i)

Indexes == -2 .. MaxLen

SliceStarts == {-1, 0, 1}

SliceEnds == {-1, 1, MaxLen + 1}

(***************************************************************************)
(* Arguments.  An object argument is a Data object the Collection already  *)
(* references (ref), or one the caller has just constructed as             *)
(* Data(start=start); the latter gets the next free object id.             *)
(***************************************************************************)
Stored == {[ref |-> r, start |-> 0] : r \in Refs}

Constructed == {[ref |-> Len(heap) + 1, start |-> start] : start \in Starts}

ObjArgs == Stored \cup Constructed

NoneArg == [ref |-> None, start |-> 0]

\* the heap once the argument object is in it
HeapWith(x) ==
    IF x.ref > Len(heap)
    THEN Append(heap, IF "obj" \in DOMAIN x THEN x.obj ELSE Data(x.start))
    ELSE heap

\* the field values of the argument object
ArgVal(x) == HeapWith(x)[x.ref]

\* the arrays the caller builds and passes in: np.array([...], dtype=Data) of
\* no element, of one element, or of two elements the second of which is None
\* or the first one again
ArgArrays ==
    {[new |-> NoneArg, arr |-> a] : a \in {<<>>} \cup {<<x>> : x \in Slots}}
    \cup {[new |-> x, arr |-> <<x.ref>>] : x \in Constructed}
    \cup {[new |-> NoneArg, arr |-> <<x, x>>] : x \in Slots}
    \cup {[new |-> x, arr |-> <<x.ref, None>>] : x \in Constructed}
    \cup {[new |-> x, arr |-> <<x.ref, x.ref>>] : x \in Constructed}

(***************************************************************************)
(* Python frees an object nothing references.  Live(arr) lists the objects *)
(* an array references, in the order of their first slot; Collect keeps    *)
(* those of the heap and Renumber gives the array their new ids.           *)
(***************************************************************************)
RECURSIVE Live(_)
Live(arr) ==
    IF arr = <<>> THEN <<>>
    ELSE LET rest == Live(SubSeq(arr, 1, Len(arr) - 1))
             final == arr[Len(arr)]
         IN  IF final = None \/ \E i \in 1 .. Len(rest) : rest[i] = final
             THEN rest
             ELSE Append(rest, final)

Collect(hp, arr) ==
    LET live == Live(arr)
    IN  [k \in 1 .. Len(live) |-> hp[live[k]]]

Renumber(arr) ==
    LET live == Live(arr)
    IN  [k \in 1 .. Len(arr) |->
            IF arr[k] = None THEN None
            ELSE CHOOSE i \in 1 .. Len(live) : live[i] = arr[k]]

\* None in an array that holds the Data objects themselves
NoObject == [start |-> Unset]

\* no call of load_data is running; method names the call that loaded last
Idle == [at |-> "idle", method |-> "", i |-> 0, rows |-> <<>>, done |-> <<>>]

(***************************************************************************)
(* Collection.__init__                                                     *)
(***************************************************************************)
Init ==
    \E size \in 0 .. MaxLen :
        /\ heap = <<>>
        /\ data = np_empty(size)
        /\ length = size
        /\ ret = NoRet
        /\ last = "__init__"
        /\ test_cases = <<>>
        /\ pc = 0
        /\ printed = <<>>
        /\ is_cached = FALSE
        /\ energycharts = <<>>
        /\ frame = Idle

(***************************************************************************)
(* Collection.set_size                                                     *)
(***************************************************************************)
\* the fields after the call and what it gives back
set_size_result(size) ==
    LET np_empty_size == np_empty(size)
    IN  [data |-> np_empty_size, length |-> Len(np_empty_size),
         ret |-> Returned(None), heap |-> Collect(heap, np_empty_size)]

set_size(size) ==
    /\ last' = "set_size"
    /\ \E after \in {set_size_result(size)} :
           /\ data' = after.data
           /\ length' = after.length
           /\ ret' = after.ret
           /\ heap' = after.heap

(***************************************************************************)
(* Collection.get_length                                                   *)
(***************************************************************************)
get_length_result(arr) == ReturnedInt(Len(arr))

get_length ==
    /\ last' = "get_length"
    /\ ret' = get_length_result(data)
    /\ UNCHANGED <<heap, data, length>>

(***************************************************************************)
(* Collection.get_all: returns self.data itself                            *)
(***************************************************************************)
get_all ==
    /\ last' = "get_all"
    /\ ret' = View(0, Len(data))
    /\ UNCHANGED <<heap, data, length>>

(***************************************************************************)
(* Collection.get_range                                                    *)
(*   [d for d in self.data if d.start >= start and d.start <= end]         *)
(* reads d.start of every slot: a None slot raises AttributeError.         *)
(***************************************************************************)
RECURSIVE range_list(_, _, _, _, _)
range_list(arr, hp, k, start, end) ==
    IF k > Len(arr) THEN <<>>
    ELSE IF hp[arr[k]].start >= start /\ hp[arr[k]].start <= end
         THEN <<arr[k]>> \o range_list(arr, hp, k + 1, start, end)
         ELSE range_list(arr, hp, k + 1, start, end)

\* mutant: the upper bound of the range taken as exclusive (d.start < end)
RECURSIVE range_list_exclusive(_, _, _, _, _)
range_list_exclusive(arr, hp, k, start, end) ==
    IF k > Len(arr) THEN <<>>
    ELSE IF hp[arr[k]].start >= start /\ hp[arr[k]].start < end
         THEN <<arr[k]>> \o range_list_exclusive(arr, hp, k + 1, start, end)
         ELSE range_list_exclusive(arr, hp, k + 1, start, end)

get_range_result_exclusive(arr, hp, start, end) ==
    IF \E k \in 1 .. Len(arr) : arr[k] = None
    THEN Raised("AttributeError")
    ELSE Fresh(range_list_exclusive(arr, hp, 1, start, end))

get_range_result(arr, hp, start, end) ==
    IF \E k \in 1 .. Len(arr) : arr[k] = None
    THEN Raised("AttributeError")
    ELSE Fresh(range_list(arr, hp, 1, start, end))

get_range(start, end) ==
    /\ last' = "get_range"
    /\ ret' = get_range_result(data, heap, start, end)
    /\ UNCHANGED <<heap, data, length>>

(***************************************************************************)
(* next((d for d in self.data if d.start == start), None)                  *)
(* scans from the first slot and stops at the first match; reading .start  *)
(* of a None slot on the way raises AttributeError.                        *)
(***************************************************************************)
RECURSIVE next_match(_, _, _, _)
next_match(arr, hp, k, start) ==
    IF k > Len(arr) THEN Returned(None)
    ELSE IF arr[k] = None THEN Raised("AttributeError")
    ELSE IF hp[arr[k]].start = start THEN Returned(arr[k])
    ELSE next_match(arr, hp, k + 1, start)

(***************************************************************************)
(* Collection.get                                                          *)
(***************************************************************************)
get_result(arr, hp, start, unsafe_return) ==
    LET found == next_match(arr, hp, 1, start)
    IN  IF found.kind = "raise" THEN found
        ELSE IF found.ref = None /\ ~unsafe_return
             THEN Raised("DataNotFoundException")
             ELSE found

get(start, unsafe_return) ==
    /\ last' = "get"
    /\ ret' = get_result(data, heap, start, unsafe_return)
    /\ UNCHANGED <<heap, data, length>>

(***************************************************************************)
(* Collection.get_by_timestamp                                             *)
(***************************************************************************)
get_by_timestamp_result(arr, hp, start, unsafe_return) ==
    LET found == next_match(arr, hp, 1, fromtimestamp(start))
    IN  IF found.kind = "raise" THEN found
        ELSE IF found.ref = None /\ ~unsafe_return
             THEN Raised("DataNotFoundException")
             ELSE found

get_by_timestamp(start, unsafe_return) ==
    /\ last' = "get_by_timestamp"
    /\ ret' = get_by_timestamp_result(data, heap, start, unsafe_return)
    /\ UNCHANGED <<heap, data, length>>

\* mutant: the unsafe_return flag read the wrong way round
get_by_index_result_inverted(arr, index, unsafe_return) ==
    IF IndexInRange(index, Len(arr))
    THEN Returned(arr[IndexPos(index, Len(arr))])
    ELSE IF unsafe_return
         THEN Raised("DataNotFoundException")
         ELSE Returned(None)

(***************************************************************************)
(* Collection.get_by_index                                                 *)
(***************************************************************************)
get_by_index_result(arr, index, unsafe_return) ==
    IF IndexInRange(index, Len(arr))
    THEN Returned(arr[IndexPos(index, Len(arr))])
    ELSE IF ~unsafe_return
         THEN Raised("DataNotFoundException")
         ELSE Returned(None)

get_by_index(index, unsafe_return) ==
    /\ last' = "get_by_index"
    /\ ret' = get_by_index_result(data, index, unsafe_return)
    /\ UNCHANGED <<heap, data, length>>

(***************************************************************************)
(* Collection.get_by_index_range: self.data[start:end], a view             *)
(***************************************************************************)
get_by_index_range(start, end) ==
    /\ last' = "get_by_index_range"
    /\ LET lo == SliceBound(start, Len(data))
           hi == SliceBound(end, Len(data))
       IN  /\ ret' = View(lo, IF hi < lo THEN lo ELSE hi)
           /\ UNCHANGED <<heap, data, length>>

\* mutant: the length field keeps its value (self.length = self.data.size left out)
add_result_stale_length(x) ==
    LET np_append == Append(data, x.ref)
    IN  [data |-> Renumber(np_append), length |-> length,
         ret |-> Returned(None), heap |-> Collect(HeapWith(x), np_append)]

(***************************************************************************)
(* Collection.add: np.append(self.data, data) with one Data object gives   *)
(* a new array that is one slot longer.                                    *)
(***************************************************************************)
\* the fields after the call and what it gives back
add_result(x) ==
    LET np_append == Append(data, x.ref)
    IN  [data |-> Renumber(np_append), length |-> Len(np_append),
         ret |-> Returned(None), heap |-> Collect(HeapWith(x), np_append)]

add(x) ==
    /\ last' = "add"
    /\ Len(data) < MaxLen
    /\ \E after \in {add_result(x)} :
           /\ data' = after.data
           /\ length' = after.length
           /\ ret' = after.ret
           /\ heap' = after.heap

\* mutant: the slot before the given index is written (self.data[index - 1] = data)
insert_result_off_by_one(x, index) ==
    IF IndexInRange(index, Len(data))
    THEN LET assigned == [data EXCEPT ![IndexPos(index - 1, Len(data))] = x.ref]
         IN  [data |-> Renumber(assigned), length |-> Len(assigned),
              ret |-> Returned(None), heap |-> Collect(HeapWith(x), assigned)]
    ELSE [data |-> data, length |-> length, ret |-> Raised("IndexError"), heap |-> heap]

\* mutant: an index one past the last slot appends instead of raising
insert_result_append_at_end(x, index) ==
    IF IndexInRange(index, Len(data)) \/ (index = Len(data) /\ Len(data) < MaxLen)
    THEN LET assigned == IF index = Len(data)
                         THEN Append(data, x.ref)
                         ELSE [data EXCEPT ![IndexPos(index, Len(data))] = x.ref]
         IN  [data |-> Renumber(assigned), length |-> Len(assigned),
              ret |-> Returned(None), heap |-> Collect(HeapWith(x), assigned)]
    ELSE [data |-> data, length |-> length, ret |-> Raised("IndexError"), heap |-> heap]

(***************************************************************************)
(* Collection.insert: the fields after the call and what it gives back.    *)
(* When self.data[index] = data raises IndexError, insert raises           *)
(* IndexError in its turn and assigns nothing.                             *)
(***************************************************************************)
insert_result(x, index) ==
    IF IndexInRange(index, Len(data))
    THEN LET assigned == [data EXCEPT ![IndexPos(index, Len(data))] = x.ref]
         IN  [data |-> Renumber(assigned), length |-> Len(assigned),
              ret |-> Returned(None), heap |-> Collect(HeapWith(x), assigned)]
    ELSE [data |-> data, length |-> length, ret |-> Raised("IndexError"), heap |-> heap]

insert(x, index) ==
    /\ last' = "insert"
    /\ \E after \in {insert_result(x, index)} :
           /\ data' = after.data
           /\ length' = after.length
           /\ ret' = after.ret
           /\ heap' = after.heap

(***************************************************************************)
(* Collection.append: np.append flattens, so an array of several elements  *)
(* grows the Collection by several slots                                   *)
(***************************************************************************)
\* mutant: the given elements go in front (np.append(data, self.data))
append_result_in_front(values) ==
    LET np_append == values.arr \o data
    IN  [data |-> Renumber(np_append), length |-> Len(np_append),
         ret |-> Returned(None), heap |-> Collect(HeapWith(values.new), np_append)]

\* the fields after the call and what it gives back
append_result(values) ==
    LET np_append == data \o values.arr
    IN  [data |-> Renumber(np_append), length |-> Len(np_append),
         ret |-> Returned(None), heap |-> Collect(HeapWith(values.new), np_append)]

append(values) ==
    /\ last' = "append"
    /\ Len(data) + Len(values.arr) <= MaxLen
    /\ \E after \in {append_result(values)} :
           /\ data' = after.data
           /\ length' = after.length
           /\ ret' = after.ret
           /\ heap' = after.heap

\* mutant: two Intervals taken as equal when their start is
data_eq_by_start(hp, slot, x) == slot /= None /\ hp[slot].start = hp[x].start

(***************************************************************************)
(* Collection.remove                                                       *)
(*   np.delete(self.data, np.where(self.data == data))                     *)
(* self.data == data compares slot by slot with the dataclass __eq__ of    *)
(* Data (all fields); a None slot is equal to no Data object.              *)
(***************************************************************************)
data_eq(hp, slot, x) == slot /= None /\ hp[slot] = hp[x]

RECURSIVE np_delete_equal(_, _, _, _)
np_delete_equal(arr, hp, k, x) ==
    IF k > Len(arr) THEN <<>>
    ELSE IF data_eq(hp, arr[k], x)
         THEN np_delete_equal(arr, hp, k + 1, x)
         ELSE <<arr[k]>> \o np_delete_equal(arr, hp, k + 1, x)

\* the fields after the call and what it gives back
remove_result(x) ==
    LET prev_length == Len(data)
        np_delete == np_delete_equal(data, HeapWith(x), 1, x.ref)
    IN  [data |-> Renumber(np_delete), length |-> Len(np_delete),
         ret |-> ReturnedBool(prev_length /= Len(np_delete)),
         heap |-> Collect(heap, np_delete)]

remove(x) ==
    /\ last' = "remove"
    /\ \E after \in {remove_result(x)} :
           /\ data' = after.data
           /\ length' = after.length
           /\ ret' = after.ret
           /\ heap' = after.heap

(***************************************************************************)
(* Collection.remove_by_start: self.data is a numpy array, which has no    *)
(* attribute start; the expression self.data.start raises AttributeError   *)
(* before anything is deleted.                                             *)
(***************************************************************************)
remove_by_start(start) ==
    /\ last' = "remove_by_start"
    /\ ret' = Raised("AttributeError")
    /\ UNCHANGED <<heap, data, length>>

(***************************************************************************)
(* Collection.set                                                          *)
(***************************************************************************)
set(values) ==
    /\ last' = "set"
    /\ data' = Renumber(values.arr)
    /\ length' = Len(data')
    /\ ret' = ReturnedInt(length')
    /\ heap' = Collect(HeapWith(values.new), values.arr)

(***************************************************************************)
(* The caller writes into the array a query returned, a[k] = v, and lets   *)
(* go of the array.  A view shares the memory of self.data; a new array    *)
(* does not.                                                               *)
(***************************************************************************)
MutateReturnedArray(k, v) ==
    /\ last' = "MutateReturnedArray"
    /\ ret.kind = "array"
    /\ \/ /\ ret.alias
          /\ ret.lo + k < ret.hi
          /\ LET assigned == [data EXCEPT ![ret.lo + k + 1] = v.ref]
             IN  /\ data' = Renumber(assigned)
                 /\ heap' = Collect(HeapWith(v), assigned)
          /\ ret' = NoRet
          /\ UNCHANGED length
       \/ /\ ~ret.alias
          /\ k < Len(ret.arr)
          /\ ret' = NoRet
          /\ UNCHANGED <<heap, data, length>>

(***************************************************************************)
(* The caller assigns a field of a returned Interval, or of an element of  *)
(* a returned array, d.production.pv = v, and lets go of what was returned.*)
(***************************************************************************)
ReturnedObjects ==
    IF ret.kind = "value" THEN {ret.ref} \ {None}
    ELSE IF ret.kind = "array" /\ ret.alias
         THEN {data[i] : i \in (ret.lo + 1) .. ret.hi} \ {None}
    ELSE IF ret.kind = "array"
         THEN {ret.arr[i] : i \in 1 .. Len(ret.arr)} \ {None}
    ELSE {}

MutateReturnedInterval(d, v) ==
    /\ last' = "MutateReturnedInterval"
    /\ d \in ReturnedObjects
    /\ heap[d].production.pv /= v
    /\ heap' = [heap EXCEPT ![d].production.pv = v]
    /\ ret' = NoRet
    /\ UNCHANGED <<data, length>>

(***************************************************************************)
(* TestCase(description, timestamp, collection, category, value_field,     *)
(* expected_value): actual_value is None until evaluate assigns it.  The   *)
(* collection of every test case is the one Collection of the model.       *)
(***************************************************************************)
TestCase(description, timestamp, category, value_field, expected_value) ==
    [description |-> description, timestamp |-> timestamp, category |-> category,
     value_field |-> value_field, expected_value |-> expected_value,
     actual_value |-> Unset]

\* return <TestCaseResult>
ReturnedResult(r) == [NoRet EXCEPT !.kind = "TestCaseResult", !.tcr = r]

\* the test cases the caller builds: a good field path, the path of a field
\* the sub-record does not have, and an expected value that is None or a float
FieldPaths == {<<"production", "pv">>, <<"consumption", "load">>, <<"consumption", "pv">>}

ExpectedValues == {Unset, 5}

TestCases ==
    {TestCase(description, timestamp, path[1], path[2], expected_value) :
        description \in {"case a"}, timestamp \in Timestamps,
        path \in FieldPaths, expected_value \in ExpectedValues}
    \cup {TestCase("case b", T0 - LocalUtcOffset, "production", "pv", 0)}

(***************************************************************************)
(* TestCase.evaluate: what it returns or raises, and the test case after   *)
(* it (self.actual_value is assigned).  get_by_timestamp is called in its  *)
(* strict mode and what it raises is not caught; getattr raises            *)
(* AttributeError for a field the sub-record does not have.  The result    *)
(* field is first set to False when a value is None and then assigned      *)
(* expected_value == actual_value in every case.                           *)
(***************************************************************************)
\* mutant: the comparison is assigned only when both values are set
evaluate_result_else(arr, hp, test_case) ==
    LET d == get_by_timestamp_result(arr, hp, test_case.timestamp, FALSE)
    IN  IF d.kind = "raise" THEN [ret |-> d, test_case |-> test_case]
        ELSE LET value == hp[d.ref][test_case.category]
             IN  IF test_case.value_field \notin DOMAIN value
                 THEN [ret |-> Raised("AttributeError"), test_case |-> test_case]
                 ELSE LET actual_value == value[test_case.value_field]
                          result == [TestCaseResult EXCEPT
                                        !.description = test_case.description,
                                        !.timestamp = test_case.timestamp,
                                        !.expected_value = test_case.expected_value,
                                        !.actual_value = actual_value]
                      IN  [ret |-> ReturnedResult(
                               IF test_case.expected_value = Unset \/ actual_value = Unset
                               THEN [result EXCEPT !.result = FALSE]
                               ELSE [result EXCEPT !.result =
                                        (test_case.expected_value = actual_value)]),
                           test_case |-> [test_case EXCEPT !.actual_value = actual_value]]

evaluate_result(arr, hp, test_case) ==
    LET d == get_by_timestamp_result(arr, hp, test_case.timestamp, FALSE)
    IN  IF d.kind = "raise" THEN [ret |-> d, test_case |-> test_case]
        ELSE LET value == hp[d.ref][test_case.category]
             IN  IF test_case.value_field \notin DOMAIN value
                 THEN [ret |-> Raised("AttributeError"), test_case |-> test_case]
                 ELSE LET actual_value == value[test_case.value_field]
                          result == [TestCaseResult EXCEPT
                                        !.description = test_case.description,
                                        !.timestamp = test_case.timestamp,
                                        !.expected_value = test_case.expected_value,
                                        !.actual_value = actual_value]
                          guarded == IF test_case.expected_value = Unset
                                        \/ actual_value = Unset
                                     THEN [result EXCEPT !.result = FALSE]
                                     ELSE result
                      IN  [ret |-> ReturnedResult(
                               [guarded EXCEPT !.result =
                                   (test_case.expected_value = actual_value)]),
                           test_case |-> [test_case EXCEPT !.actual_value = actual_value]]

\* the caller builds a test case and evaluates it
evaluate(test_case) ==
    /\ last' = "evaluate"
    /\ pc = 0
    /\ ret' = evaluate_result(data, heap, test_case).ret
    /\ UNCHANGED <<heap, data, length, validation>>

(***************************************************************************)
(* Collection.add_test_case                                                *)
(***************************************************************************)
\* the test cases the caller attaches to the Collection
AttachedCases ==
    {test_case \in TestCases :
        /\ test_case.timestamp = T0 - LocalUtcOffset
        /\ test_case.category = "production"
        /\ test_case.expected_value /= Unset}

add_test_case(test_case) ==
    /\ last' = "add_test_case"
    /\ pc = 0
    /\ Len(test_cases) < MaxCases
    /\ test_cases' = Append(test_cases, test_case)
    /\ ret' = Returned(None)
    /\ UNCHANGED <<heap, data, length, pc, printed>>

(***************************************************************************)
(* DataManager.test_dataset                                                *)
(*   for test_case in collection.get_test_cases():                         *)
(*       self.print_test(test_case.evaluate())                             *)
(* The call, one action per pass of the loop, and the return.  What        *)
(* evaluate raises is not caught and ends the call.  printed is what the   *)
(* running call has printed; pc is the position of the next test case.     *)
(***************************************************************************)
test_dataset_call ==
    /\ last' = "test_dataset"
    /\ pc = 0
    /\ pc' = 1
    /\ printed' = <<>>
    /\ ret' = NoRet
    /\ UNCHANGED <<heap, data, length, test_cases>>

\* mutant: the loop ends at the first failed test case
test_dataset_loop_until_failure ==
    /\ last' = "test_dataset"
    /\ pc >= 1
    /\ pc <= Len(test_cases)
    /\ \E evaluated \in {evaluate_result(data, heap, test_cases[pc])} :
           IF evaluated.ret.kind = "raise"
           THEN /\ pc' = 0
                /\ printed' = <<>>
                /\ ret' = evaluated.ret
                /\ UNCHANGED test_cases
           ELSE /\ test_cases' = [test_cases EXCEPT ![pc] = evaluated.test_case]
                /\ printed' = Append(printed, evaluated.ret.tcr)
                /\ pc' = IF evaluated.ret.tcr.result THEN pc + 1 ELSE Len(test_cases) + 1
                /\ UNCHANGED ret
    /\ UNCHANGED <<heap, data, length>>

test_dataset_loop ==
    /\ last' = "test_dataset"
    /\ pc >= 1
    /\ pc <= Len(test_cases)
    /\ \E evaluated \in {evaluate_result(data, heap, test_cases[pc])} :
           IF evaluated.ret.kind = "raise"
           THEN /\ pc' = 0
                /\ printed' = <<>>
                /\ ret' = evaluated.ret
                /\ UNCHANGED test_cases
           ELSE /\ test_cases' = [test_cases EXCEPT ![pc] = evaluated.test_case]
                /\ printed' = Append(printed, evaluated.ret.tcr)
                /\ pc' = pc + 1
                /\ UNCHANGED ret
    /\ UNCHANGED <<heap, data, length>>

test_dataset_return ==
    /\ last' = "test_dataset"
    /\ pc = Len(test_cases) + 1
    /\ pc' = 0
    /\ printed' = <<>>
    /\ ret' = Returned(None)
    /\ UNCHANGED <<heap, data, length, test_cases>>

(***************************************************************************)
(* Arithmetic.  The right operand of an operator is a float or another     *)
(* Data object.  Floats are integers here, and the operands are chosen so  *)
(* that every division is exact, as it is for the floats they stand for.   *)
(***************************************************************************)
Float(n) == [type |-> "float", num |-> n]

DataOperand == [type |-> "Data", num |-> 0]

Scalars == {-2, 0, 1, 2, 4}

RightOperands == {Float(n) : n \in Scalars} \cup {DataOperand}

\* the fields of a sub-record object: self.__dict__
Fields(self) == DOMAIN self \ {"class"}

\* EnergySources.__truediv__, Consumption.__truediv__:
\*   self.__class__(**{k: v / value for k, v in self.__dict__.items()})
SubRecord__truediv__(self, value) ==
    OfClass(self.class, [k \in Fields(self) |-> self[k] \div value])

\* EnergySources.__mul__, Consumption.__mul__
SubRecord__mul__(self, value) ==
    OfClass(self.class, [k \in Fields(self) |-> self[k] * value])

\* Data.__add__, Data.__sub__, Data.__mul__
Data__add__(self, value) == Raised("NotImplementedError")

Data__sub__(self, value) == Raised("NotImplementedError")

\* mutant: multiplication like division, sub-record by sub-record
Data__mul__by_sub_records(self, value) ==
    IF value.type /= "float" THEN Raised("TypeError")
    ELSE ReturnedObject(DataOf(self.start,
                               SubRecord__mul__(self.production, value.num),
                               SubRecord__mul__(self.power, value.num),
                               SubRecord__mul__(self.consumption, value.num)))

Data__mul__(self, value) == Raised("NotImplementedError")

\* mutant: the new object is built by the base class for every sub-record
Data__truediv__base_class(self, value) ==
    IF value.type /= "float" THEN Raised("TypeError")
    ELSE IF value.num = 0 THEN Raised("ZeroDivisionError")
    ELSE ReturnedObject(DataOf(self.start,
             OfClass("EnergySources",
                     [k \in Fields(self.production) |-> self.production[k] \div value.num]),
             OfClass("EnergySources",
                     [k \in Fields(self.power) |-> self.power[k] \div value.num]),
             SubRecord__truediv__(self.consumption, value.num)))

\* Data.__truediv__: float / Data raises TypeError and a float divided by
\* zero raises ZeroDivisionError, both inside self.production / value
Data__truediv__(self, value) ==
    IF value.type /= "float" THEN Raised("TypeError")
    ELSE IF value.num = 0 THEN Raised("ZeroDivisionError")
    ELSE ReturnedObject(DataOf(self.start,
                               SubRecord__truediv__(self.production, value.num),
                               SubRecord__truediv__(self.power, value.num),
                               SubRecord__truediv__(self.consumption, value.num)))

\* the caller applies an operator to a stored Interval: d + value, d - value,
\* d * value, d / value
add_operator(d, value) ==
    /\ last' = "__add__"
    /\ ret' = Data__add__(heap[d], value)
    /\ UNCHANGED <<heap, data, length>>

sub_operator(d, value) ==
    /\ last' = "__sub__"
    /\ ret' = Data__sub__(heap[d], value)
    /\ UNCHANGED <<heap, data, length>>

mul_operator(d, value) ==
    /\ last' = "__mul__"
    /\ ret' = Data__mul__(heap[d], value)
    /\ UNCHANGED <<heap, data, length>>

truediv_operator(d, value) ==
    /\ last' = "__truediv__"
    /\ ret' = Data__truediv__(heap[d], value)
    /\ UNCHANGED <<heap, data, length>>

(***************************************************************************)
(* Parser.  A raw row (a dict of csv.DictReader) is a function from the    *)
(* names of the columns it has to their cells; a cell is the number its    *)
(* text reads as, or Malformed when float() and int() raise ValueError on  *)
(* it.                                                                     *)
(***************************************************************************)
Malformed == -2

\* data.<category>.<field> = float(vals[c1]) + float(vals[c2]) + ...
Assign(category, field, columns) ==
    [op |-> "assign", category |-> category, field |-> field,
     columns |-> columns, by |-> 0]

\* data.<category> *= by, data.<category> /= by
Scale(op, category, by) ==
    [op |-> op, category |-> category, field |-> "", columns |-> <<>>, by |-> by]

\* the statements of the try block of parse_smard, in their order
SmardStatements ==
    << Assign("production", "pv", <<"Solar">>),
       Assign("production", "wind_offshore", <<"Wind offshore">>),
       Assign("production", "wind_onshore", <<"Wind onshore">>),
       Assign("production", "biomass", <<"Biomass">>),
       Assign("production", "hydro", <<"Hydro">>),
       Assign("production", "other_renewables", <<"Other renewables">>),
       Assign("production", "coal", <<"Fossil hard coal">>),
       Assign("production", "lignite", <<"Fossil brown coal / lignite">>),
       Assign("production", "gas", <<"Fossil gas">>),
       Assign("production", "other_conventionals", <<"Other conventionals">>),
       Assign("production", "nuclear", <<"Nuclear">>),
       Scale("mul", "production", 1000000),
       Assign("power", "pv", <<"Installed solar">>),
       Assign("power", "wind_offshore", <<"Installed wind offshore">>),
       Assign("power", "wind_onshore", <<"Installed wind onshore">>),
       Assign("power", "biomass", <<"Installed biomass">>),
       Assign("power", "hydro", <<"Installed hydro">>),
       Assign("power", "other_renewables", <<"Installed other renewables">>),
       Assign("power", "coal", <<"Installed fossil hard coal">>),
       Assign("power", "lignite", <<"Installed fossil brown coal / lignite">>),
       Assign("power", "gas", <<"Installed fossil gas">>),
       Assign("power", "other_conventionals", <<"Installed other conventionals">>),
       Assign("power", "nuclear", <<"Installed nuclear">>),
       Scale("mul", "power", 1000000),
       Assign("consumption", "load", <<"Load">>),
       Assign("consumption", "residual", <<"Residual load">>),
       Scale("mul", "consumption", 1000000) >>

\* the statements of the try block of parse_energycharts, in their order
EnergychartsStatements ==
    << Assign("production", "pv", <<"Solar">>),
       Assign("production", "wind_offshore", <<"Wind offshore">>),
       Assign("production", "wind_onshore", <<"Wind onshore">>),
       Assign("production", "biomass", <<"Biomass">>),
       Assign("production", "hydro", <<"Hydro Run-of-River", "Hydro water reservoir">>),
       Assign("production", "other_renewables", <<"Geothermal">>),
       Assign("production", "coal", <<"Fossil hard coal">>),
       Assign("production", "lignite", <<"Fossil brown coal / lignite">>),
       Assign("production", "gas", <<"Fossil gas">>),
       Assign("production", "other_conventionals", <<"Fossil oil", "Others", "Waste">>),
       Assign("production", "nuclear", <<"Nuclear">>),
       Scale("mul", "production", 1000000),
       Scale("truediv", "production", 4),
       Assign("consumption", "load", <<"Load">>),
       Assign("consumption", "residual", <<"Residual load">>),
       Scale("mul", "consumption", 1000000),
       Scale("truediv", "consumption", 4) >>

\* the columns the statements read, in the order they are read
RECURSIVE ColumnsOf(_, _)
ColumnsOf(statements, k) ==
    IF k > Len(statements) THEN <<>>
    ELSE statements[k].columns \o ColumnsOf(statements, k + 1)

SmardColumns == ColumnsOf(SmardStatements, 1)

EnergychartsColumns == ColumnsOf(EnergychartsStatements, 1)

\* a row that has every column: the timestamp and, in the k-th source
\* column, the number 4 * k
CompleteRow(columns, unix_seconds) ==
    [c \in {"unix_seconds"} \cup {columns[k] : k \in 1 .. Len(columns)} |->
        IF c = "unix_seconds" THEN unix_seconds
        ELSE 4 * (CHOOSE k \in 1 .. Len(columns) : columns[k] = c)]

\* the row without one of its columns
Lacking(vals, column) == [c \in DOMAIN vals \ {column} |-> vals[c]]

\* the row with a cell that is no number
MalformedAt(vals, column) == [vals EXCEPT ![column] = Malformed]

\* the rows the parser is given: complete ones, and for every column a row
\* that lacks it and a row in which it is malformed
Rows(columns) ==
    {CompleteRow(columns, unix_seconds) : unix_seconds \in Timestamps}
    \cup {Lacking(CompleteRow(columns, T0 - LocalUtcOffset), c) :
             c \in DOMAIN CompleteRow(columns, T0 - LocalUtcOffset)}
    \cup {MalformedAt(CompleteRow(columns, T0 - LocalUtcOffset), c) :
             c \in DOMAIN CompleteRow(columns, T0 - LocalUtcOffset)}

\* float(vals[column]) gives a float: no KeyError and no ValueError
Readable(vals, column) == column \in DOMAIN vals /\ vals[column] /= Malformed

RECURSIVE SumOfCells(_, _, _)
SumOfCells(vals, columns, k) ==
    IF k > Len(columns) THEN 0
    ELSE vals[columns[k]] + SumOfCells(vals, columns, k + 1)

(***************************************************************************)
(* The try block from its k-th statement on.  A KeyError is caught and     *)
(* printed; any other exception is discarded by the return of the finally  *)
(* clause.  Either way the statements after the failing one do not run     *)
(* and data is returned as it is.                                          *)
(***************************************************************************)
RECURSIVE try_block(_, _, _, _)
try_block(statements, k, vals, d) ==
    IF k > Len(statements) THEN d
    ELSE LET st == statements[k]
         IN  IF st.op = "assign"
             THEN IF \A i \in 1 .. Len(st.columns) : Readable(vals, st.columns[i])
                  THEN try_block(statements, k + 1, vals,
                                 [d EXCEPT ![st.category][st.field] =
                                     SumOfCells(vals, st.columns, 1)])
                  ELSE d
             ELSE IF st.op = "mul"
             THEN try_block(statements, k + 1, vals,
                            [d EXCEPT ![st.category] = SubRecord__mul__(@, st.by)])
             ELSE try_block(statements, k + 1, vals,
                            [d EXCEPT ![st.category] = SubRecord__truediv__(@, st.by)])

\* start = dt.datetime.fromtimestamp(int(vals['unix_seconds'])); data = Data(start=start)
\* run before the try block: what they raise reaches the caller
parse_result(statements, vals) ==
    IF "unix_seconds" \notin DOMAIN vals THEN Raised("KeyError")
    ELSE IF vals["unix_seconds"] = Malformed THEN Raised("ValueError")
    ELSE ReturnedObject(try_block(statements, 1, vals,
                                  Data(fromtimestamp(vals["unix_seconds"]))))

parse_smard_result(vals) == parse_result(SmardStatements, vals)

parse_energycharts_result(vals) == parse_result(EnergychartsStatements, vals)

parse_smard(vals) ==
    /\ last' = "parse_smard"
    /\ ret' = parse_smard_result(vals)
    /\ UNCHANGED <<heap, data, length>>

parse_energycharts(vals) ==
    /\ last' = "parse_energycharts"
    /\ ret' = parse_energycharts_result(vals)
    /\ UNCHANGED <<heap, data, length>>

(***************************************************************************)
(* DataManager.load_dataset, one pass of its loop:                         *)
(*   d = collection.parse_func(row); collection.insert(d, i)               *)
(***************************************************************************)
\* the Data object a call has constructed, as an argument
Produced(o) == [ref |-> Len(heap) + 1, start |-> o.start, obj |-> o]

load_row(parsed, i) ==
    /\ last' = "load_dataset"
    /\ IF parsed.kind = "raise"
       THEN /\ ret' = parsed
            /\ UNCHANGED <<heap, data, length>>
       ELSE \E after \in {insert_result(Produced(parsed.obj), i)} :
               /\ data' = after.data
               /\ length' = after.length
               /\ ret' = after.ret
               /\ heap' = after.heap

(***************************************************************************)
(* Collections.set_test_cases: the three test cases attached to smard when *)
(* the DataManager is constructed.  Their expected values are those of the *)
(* rows of the reference file at the two instants they name.               *)
(***************************************************************************)
ReferenceRow(unix_seconds) == CompleteRow(SmardColumns, unix_seconds)

Reference(unix_seconds) == parse_smard_result(ReferenceRow(unix_seconds)).obj

SolarInstant == T0 - LocalUtcOffset

LoadInstant == T0 + FifteenMinutes - LocalUtcOffset

set_test_cases ==
    << TestCase("Solar value", SolarInstant, "production", "pv",
                Reference(SolarInstant).production.pv),
       TestCase("Load value", LoadInstant, "consumption", "load",
                Reference(LoadInstant).consumption.load),
       TestCase("Wind onshore", LoadInstant, "production", "wind_onshore",
                Reference(LoadInstant).production.wind_onshore) >>

(***************************************************************************)
(* The files open() finds under res_path when load_dataset runs: no file,  *)
(* a file with the header only, and files of one or two rows.              *)
(***************************************************************************)
NoFile == [found |-> FALSE, rows |-> <<>>]

File(rows) == [found |-> TRUE, rows |-> rows]

SmardFiles ==
    {NoFile, File(<<>>),
     File(<<ReferenceRow(SolarInstant)>>),
     File(<<ReferenceRow(SolarInstant), ReferenceRow(LoadInstant)>>),
     File(<<ReferenceRow(SolarInstant),
            Lacking(ReferenceRow(LoadInstant), "Residual load")>>),
     File(<<ReferenceRow(SolarInstant),
            Lacking(ReferenceRow(LoadInstant), "unix_seconds")>>)}

EnergychartsFiles ==
    {NoFile, File(<<>>),
     File(<<CompleteRow(EnergychartsColumns, SolarInstant)>>),
     File(<<CompleteRow(EnergychartsColumns, SolarInstant),
            CompleteRow(EnergychartsColumns, LoadInstant)>>),
     File(<<Lacking(CompleteRow(EnergychartsColumns, SolarInstant), "unix_seconds")>>)}

\* return self.collections
ReturnedCollections == [NoRet EXCEPT !.kind = "Collections"]

\* the running call has come to position at, the call named by completed
\* having returned
Goto(at, completed) == [frame EXCEPT !.at = at, !.done = Append(@, completed)]

(***************************************************************************)
(* DataManager.get_data / DataManager.load_data                            *)
(*   get_data:  if not self.is_cached: self.load_data()                    *)
(*              return self.collections                                    *)
(*   load_data: if self.is_cached: return                                  *)
(*              self.load_dataset(self.collections.smard)                  *)
(*              self.test_dataset(self.collections.smard)                  *)
(*              self.load_dataset(self.collections.energycharts)           *)
(*              self.is_cached = True                                      *)
(* The call, the steps of the three calls it makes, and its return.  No    *)
(* exception is caught in either method: what a step raises ends the call. *)
(***************************************************************************)
load_data_call(method) ==
    /\ frame.at = "idle"
    /\ last' = method
    /\ IF is_cached
       THEN /\ ret' = IF method = "get_data" THEN ReturnedCollections ELSE Returned(None)
            /\ UNCHANGED frame
       ELSE /\ ret' = NoRet
            /\ frame' = [Idle EXCEPT !.at = "open smard", !.method = method]
    /\ UNCHANGED <<heap, data, length, test_cases, pc, printed, is_cached, energycharts>>

load_data_return ==
    /\ frame.at = "return"
    /\ last' = frame.method
    /\ is_cached' = TRUE
    /\ frame' = [Idle EXCEPT !.method = frame.method]
    /\ ret' = IF frame.method = "get_data" THEN ReturnedCollections ELSE Returned(None)
    /\ UNCHANGED <<heap, data, length, test_cases, pc, printed, energycharts>>

(***************************************************************************)
(* DataManager.load_dataset(self.collections.smard): open the file and     *)
(* size the array, one pass of the loop per row, and the summary that      *)
(* reads the first and the last entry.                                     *)
(***************************************************************************)
load_dataset_open_smard(file) ==
    /\ frame.at = "open smard"
    /\ IF file.found
       THEN /\ set_size(Len(file.rows))
            /\ frame' = [frame EXCEPT !.at = "rows smard", !.i = 0, !.rows = file.rows]
       ELSE /\ last' = "load_dataset"
            /\ ret' = Returned(None)
            /\ frame' = Goto("test_dataset", "load_dataset smard")
            /\ UNCHANGED <<heap, data, length>>
    /\ UNCHANGED <<test_cases, pc, printed, is_cached, energycharts>>

load_dataset_row_smard ==
    /\ frame.at = "rows smard"
    /\ frame.i < Len(frame.rows)
    /\ load_row(parse_smard_result(frame.rows[frame.i + 1]), frame.i)
    /\ frame' = IF ret'.kind = "raise" THEN Idle ELSE [frame EXCEPT !.i = @ + 1]
    /\ UNCHANGED <<test_cases, pc, printed, is_cached, energycharts>>

\* first_entry = collection.get_by_index(0); first_entry.start; the same
\* for the last entry: what a strict lookup raises, or AttributeError on None
entries_result(arr, row_count, none) ==
    LET first_entry == get_by_index_result(arr, 0, FALSE)
        last_entry == get_by_index_result(arr, row_count - 1, FALSE)
    IN  IF first_entry.kind = "raise" THEN first_entry
        ELSE IF first_entry.ref = none THEN Raised("AttributeError")
        ELSE IF last_entry.kind = "raise" THEN last_entry
        ELSE IF last_entry.ref = none THEN Raised("AttributeError")
        ELSE Returned(None)

load_dataset_summary_smard ==
    /\ frame.at = "rows smard"
    /\ frame.i = Len(frame.rows)
    /\ last' = "load_dataset"
    /\ ret' = entries_result(data, Len(frame.rows), None)
    /\ frame' = IF ret'.kind = "raise" THEN Idle
                ELSE Goto("test_dataset", "load_dataset smard")
    /\ UNCHANGED <<heap, data, length, test_cases, pc, printed, is_cached, energycharts>>

(***************************************************************************)
(* self.test_dataset(self.collections.smard) inside load_data              *)
(***************************************************************************)
load_data_test_dataset_call ==
    /\ frame.at = "test_dataset"
    /\ test_dataset_call
    /\ frame' = [frame EXCEPT !.at = "testing"]
    /\ UNCHANGED <<is_cached, energycharts>>

\* mutant: what evaluate raises is caught and load_data goes on
load_data_test_dataset_loop_caught ==
    /\ frame.at = "testing"
    /\ test_dataset_loop
    /\ frame' = IF ret'.kind = "raise"
                THEN Goto("open energycharts", "test_dataset smard")
                ELSE frame
    /\ UNCHANGED <<is_cached, energycharts>>

load_data_test_dataset_loop ==
    /\ frame.at = "testing"
    /\ test_dataset_loop
    /\ frame' = IF ret'.kind = "raise" THEN Idle ELSE frame
    /\ UNCHANGED <<is_cached, energycharts>>

load_data_test_dataset_return ==
    /\ frame.at = "testing"
    /\ test_dataset_return
    /\ frame' = Goto("open energycharts", "test_dataset smard")
    /\ UNCHANGED <<is_cached, energycharts>>

(***************************************************************************)
(* DataManager.load_dataset(self.collections.energycharts).  The array of  *)
(* this Collection holds the Data objects themselves, and NoObject where   *)
(* a slot is None.                                                         *)
(***************************************************************************)
np_empty_objects(size) == [i \in 1 .. size |-> NoObject]

load_dataset_open_energycharts(file) ==
    /\ frame.at = "open energycharts"
    /\ last' = "load_dataset"
    /\ ret' = Returned(None)
    /\ IF file.found
       THEN /\ energycharts' = np_empty_objects(Len(file.rows))
            /\ frame' = [frame EXCEPT !.at = "rows energycharts", !.i = 0,
                                      !.rows = file.rows]
       ELSE /\ frame' = Goto("return", "load_dataset energycharts")
            /\ UNCHANGED energycharts
    /\ UNCHANGED <<heap, data, length, test_cases, pc, printed, is_cached>>

\* `if i == 0 and collection == self.collections.energycharts` on the
\* Collection itself: the __eq__ the dataclass generates either finds the
\* fields identical, or compares the data arrays element by element, and
\* the truth value of an array of more than one element is a ValueError.
\* Which of the two depends on the interpreter.
debug_comparison_raises(i, arr) ==
    IF i = 0 /\ Len(arr) > 1 THEN BOOLEAN ELSE {FALSE}

\* collection.insert(d, i): self.data[index] = data, IndexError caught inside
insert_energycharts(arr, d, index) ==
    IF IndexInRange(index, Len(arr))
    THEN [arr EXCEPT ![IndexPos(index, Len(arr))] = d]
    ELSE arr

load_dataset_row_energycharts ==
    /\ frame.at = "rows energycharts"
    /\ frame.i < Len(frame.rows)
    /\ last' = "load_dataset"
    /\ \E parsed \in {parse_energycharts_result(frame.rows[frame.i + 1])},
          raises \in debug_comparison_raises(frame.i, energycharts) :
           IF parsed.kind = "raise"
           THEN /\ ret' = parsed
                /\ frame' = Idle
                /\ UNCHANGED energycharts
           ELSE IF raises
           THEN /\ ret' = Raised("ValueError")
                /\ frame' = Idle
                /\ UNCHANGED energycharts
           ELSE /\ ret' = Returned(None)
                /\ frame' = [frame EXCEPT !.i = @ + 1]
                /\ energycharts' = insert_energycharts(energycharts, parsed.obj, frame.i)
    /\ UNCHANGED <<heap, data, length, test_cases, pc, printed, is_cached>>

load_dataset_summary_energycharts ==
    /\ frame.at = "rows energycharts"
    /\ frame.i = Len(frame.rows)
    /\ last' = "load_dataset"
    /\ ret' = entries_result(energycharts, Len(frame.rows), NoObject)
    /\ frame' = IF ret'.kind = "raise" THEN Idle
                ELSE Goto("return", "load_dataset energycharts")
    /\ UNCHANGED <<heap, data, length, test_cases, pc, printed, is_cached, energycharts>>

(***************************************************************************)
(* The shape of the state: the fields of Collection and of the Data        *)
(* objects it references.                                                  *)
(***************************************************************************)
TypeOK ==
    /\ \A d \in Refs :
           /\ DOMAIN heap[d] = DOMAIN Data(0)
           /\ heap[d].start \in Starts
           /\ DOMAIN heap[d].production = DOMAIN Production
           /\ DOMAIN heap[d].power = DOMAIN Power
           /\ DOMAIN heap[d].consumption = DOMAIN ConsumptionObject
           /\ heap[d].production.class = "Production"
           /\ heap[d].power.class = "Power"
           /\ heap[d].consumption.class = "Consumption"
           /\ \A f \in DOMAIN EnergySources :
                  heap[d].production[f] \in Int /\ heap[d].power[f] \in Int
           /\ \A f \in DOMAIN Consumption : heap[d].consumption[f] \in Int
    /\ Len(heap) <= MaxLen
    /\ data \in Seq(Slots)
    /\ Len(data) <= MaxLen
    /\ length \in 0 .. MaxLen
    /\ ret.kind \in {"value", "raise", "array", "bool", "int", "TestCaseResult", "object",
                    "Collections"}
    /\ ret.ref \in Slots
    /\ \/ /\ \A k \in 1 .. Len(test_cases) :
                 [test_cases[k] EXCEPT !.actual_value = Unset] \in AttachedCases
          /\ Len(test_cases) <= MaxCases
       \/ /\ Len(test_cases) = Len(set_test_cases)
          /\ \A k \in 1 .. Len(test_cases) :
                 [test_cases[k] EXCEPT !.actual_value = Unset] = set_test_cases[k]
    /\ pc \in 0 .. Len(test_cases) + 1
    /\ Len(printed) <= Len(test_cases)
    /\ is_cached \in BOOLEAN
    /\ \A k \in 1 .. Len(energycharts) :
           energycharts[k] = NoObject \/ energycharts[k].start \in Starts
    /\ frame.at \in {"idle", "open smard", "rows smard", "test_dataset", "testing",
                     "open energycharts", "rows energycharts", "return"}
    /\ frame.i \in 0 .. Len(frame.rows)
    /\ is_cached => frame.at = "idle"

Next ==
    \/ \E size \in 0 .. MaxLen : set_size(size) /\ UNCHANGED validation
    \/ get_length /\ UNCHANGED validation
    \/ get_all /\ UNCHANGED validation
    \/ \E start \in Instants, end \in Instants :
           get_range(start, end) /\ UNCHANGED validation
    \/ \E start \in Instants, unsafe_return \in BOOLEAN :
           get(start, unsafe_return) /\ UNCHANGED validation
    \/ \E start \in Timestamps, unsafe_return \in BOOLEAN :
           get_by_timestamp(start, unsafe_return) /\ UNCHANGED validation
    \/ \E index \in Indexes, unsafe_return \in BOOLEAN :
           get_by_index(index, unsafe_return) /\ UNCHANGED validation
    \/ \E start \in SliceStarts, end \in SliceEnds :
           get_by_index_range(start, end) /\ UNCHANGED validation
    \/ \E x \in ObjArgs : add(x) /\ UNCHANGED validation
    \/ \E x \in ObjArgs, index \in Indexes : insert(x, index) /\ UNCHANGED validation
    \/ \E values \in ArgArrays : append(values) /\ UNCHANGED validation
    \/ \E x \in ObjArgs : remove(x) /\ UNCHANGED validation
    \/ \E start \in Instants : remove_by_start(start) /\ UNCHANGED validation
    \/ \E values \in ArgArrays : set(values) /\ UNCHANGED validation
    \/ \E k \in 0 .. MaxLen - 1, v \in ObjArgs \cup {NoneArg} :
           MutateReturnedArray(k, v) /\ UNCHANGED validation
    \/ \E d \in Refs, v \in PvValues :
           MutateReturnedInterval(d, v) /\ UNCHANGED validation

Spec == Init /\ [][Next]_vars

(***************************************************************************)
(* The validator on one test case: a Collection is filled slot by slot as  *)
(* load_dataset does, the caller assigns production.pv of stored           *)
(* Intervals, builds test cases and evaluates them.                        *)
(***************************************************************************)
EvaluateNext ==
    \/ \E x \in Constructed, index \in 0 .. MaxLen - 1 :
           insert(x, index) /\ UNCHANGED validation
    \/ \E index \in 0 .. MaxLen - 1 :
           get_by_index(index, FALSE) /\ UNCHANGED validation
    \/ \E d \in Refs, v \in {Unset, 5} :
           MutateReturnedInterval(d, v) /\ UNCHANGED validation
    \/ \E test_case \in TestCases : evaluate(test_case)

EvaluateSpec == Init /\ [][EvaluateNext]_vars

(***************************************************************************)
(* The validator on the test cases of a Collection: the slots are filled   *)
(* with Intervals that start at T0, the caller assigns their               *)
(* production.pv, attaches test cases and runs test_dataset.  The program  *)
(* is single-threaded: nothing else runs during a call of test_dataset.    *)
(***************************************************************************)
TestDatasetNext ==
    \/ \E x \in {c \in Constructed : c.start = T0}, index \in 0 .. Len(data) - 1 :
           pc = 0 /\ insert(x, index) /\ UNCHANGED validation
    \/ \E index \in 0 .. Len(data) - 1 :
           pc = 0 /\ get_by_index(index, FALSE) /\ UNCHANGED validation
    \/ \E d \in Refs :
           pc = 0 /\ MutateReturnedInterval(d, 5) /\ UNCHANGED validation
    \/ \E test_case \in AttachedCases : add_test_case(test_case) /\ UNCHANGED manager
    \/ test_dataset_call /\ UNCHANGED manager
    \/ test_dataset_loop /\ UNCHANGED manager
    \/ test_dataset_return /\ UNCHANGED manager

TestDatasetSpec == Init /\ [][TestDatasetNext]_vars

(***************************************************************************)
(* The DataManager: constructed with empty Collections and the three test  *)
(* cases of set_test_cases attached to smard, then called with get_data    *)
(* and load_data in any order, the files being whatever is on disk when a  *)
(* load opens them.  The program is single-threaded: a call runs to its    *)
(* return or to the exception that ends it before the next call starts.    *)
(***************************************************************************)
DataManagerInit ==
    /\ heap = <<>>
    /\ data = np_empty(0)
    /\ length = 0
    /\ ret = NoRet
    /\ last = "__init__"
    /\ test_cases = set_test_cases
    /\ pc = 0
    /\ printed = <<>>
    /\ is_cached = FALSE
    /\ energycharts = np_empty_objects(0)
    /\ frame = Idle

DataManagerNext ==
    \/ \E method \in {"get_data", "load_data"} : load_data_call(method)
    \/ \E file \in SmardFiles : load_dataset_open_smard(file)
    \/ load_dataset_row_smard
    \/ load_dataset_summary_smard
    \/ load_data_test_dataset_call
    \/ load_data_test_dataset_loop
    \/ load_data_test_dataset_return
    \/ \E file \in EnergychartsFiles : load_dataset_open_energycharts(file)
    \/ load_dataset_row_energycharts
    \/ load_dataset_summary_energycharts
    \/ load_data_return

DataManagerSpec == DataManagerInit /\ [][DataManagerNext]_vars

(***************************************************************************)
(* The parsers on the rows of a file.                                      *)
(***************************************************************************)
ParserNext ==
    \/ \E vals \in Rows(SmardColumns) : parse_smard(vals) /\ UNCHANGED validation
    \/ \E vals \in Rows(EnergychartsColumns) :
           parse_energycharts(vals) /\ UNCHANGED validation

ParserSpec == Init /\ [][ParserNext]_vars

(***************************************************************************)
(* The Intervals of the program: constructed from a start, parsed from a   *)
(* row, loaded into the Collection, divided; and the operators on the      *)
(* Intervals the Collection holds.                                         *)
(***************************************************************************)
\* the rows of the files: one of each provider
SmardRow == CompleteRow(SmardColumns, T0 - LocalUtcOffset)

EnergychartsRow == CompleteRow(EnergychartsColumns, T0 + FifteenMinutes - LocalUtcOffset)

IntervalNext ==
    \/ \E size \in 0 .. MaxLen : set_size(size) /\ UNCHANGED validation
    \/ \E x \in {c \in Constructed : c.start = T0}, index \in 0 .. Len(data) - 1 :
           insert(x, index) /\ UNCHANGED validation
    \/ \E x \in Stored : remove(x) /\ UNCHANGED validation
    \/ parse_smard(SmardRow) /\ UNCHANGED validation
    \/ parse_energycharts(EnergychartsRow) /\ UNCHANGED validation
    \/ \E i \in 0 .. Len(data) - 1 :
           load_row(parse_smard_result(SmardRow), i) /\ UNCHANGED validation
    \/ \E i \in 0 .. Len(data) - 1 :
           load_row(parse_energycharts_result(EnergychartsRow), i)
               /\ UNCHANGED validation
    \/ \E d \in Refs, value \in RightOperands :
           add_operator(d, value) /\ UNCHANGED validation
    \/ \E d \in Refs, value \in RightOperands :
           sub_operator(d, value) /\ UNCHANGED validation
    \/ \E d \in Refs, value \in RightOperands :
           mul_operator(d, value) /\ UNCHANGED validation
    \/ \E d \in Refs, value \in RightOperands :
           truediv_operator(d, value) /\ UNCHANGED validation

IntervalSpec == Init /\ [][IntervalNext]_vars

(***************************************************************************)
(* What the claims speak of.                                               *)
(***************************************************************************)
\* what a slot holds, by value
SlotValue(arr, hp, i) ==
    IF arr[i] = None
    THEN [filled |-> FALSE, val |-> Data(0)]
    ELSE [filled |-> TRUE, val |-> hp[arr[i]]]

\* what the Collection holds, by value
Contents(arr, hp) == [i \in 1 .. Len(arr) |-> SlotValue(arr, hp, i)]

\* every slot holds an Interval
NoEmptySlot == \A i \in 1 .. Len(data) : data[i] /= None

\* the indexes the claims range over
AnyIndex == -(MaxLen + 1) .. (MaxLen + 1)

\* no stored Interval starts at the instant
Absent(start) ==
    \A i \in 1 .. Len(data) : data[i] /= None => heap[data[i]].start /= start

\* the outcome of a lookup that finds nothing
AbsentOutcome(unsafe_return) ==
    IF unsafe_return THEN Returned(None) ELSE Raised("DataNotFoundException")

\* the number of positions of K up to position i
Rank(K, i) == Cardinality({j \in K : j <= i})

(***************************************************************************)
(* C1: Collection.length, the number of slots of the backing array and     *)
(* what get_length() returns are the same number in every state, whatever  *)
(* operations ran.                                                         *)
(***************************************************************************)
C1_LengthNeverDiverges ==
    /\ length = Len(data)
    /\ last = "get_length" => ret = ReturnedInt(length)

C1_Witness ==
    /\ last = "get_length"
    /\ ret.num = MaxLen
    /\ Len(heap) >= 2

(***************************************************************************)
(* C2: no two slots of the Collection hold Intervals with the same start.  *)
(***************************************************************************)
C2_UniqueStarts ==
    \A i \in 1 .. Len(data) : \A j \in 1 .. Len(data) :
        (i /= j /\ data[i] /= None /\ data[j] /= None)
            => heap[data[i]].start /= heap[data[j]].start

(***************************************************************************)
(* C3: get and get_by_timestamp, asked for an instant no stored Interval   *)
(* starts at, raise DataNotFoundException in strict mode and return None   *)
(* in lenient mode, in every state of the Collection.                      *)
(***************************************************************************)
C3_AbsentLookup ==
    [][/\ last' = "get" =>
            \A start \in Instants : \A unsafe_return \in BOOLEAN :
                (Absent(start) /\ get(start, unsafe_return))
                    => ret' = AbsentOutcome(unsafe_return)
       /\ last' = "get_by_timestamp" =>
            \A start \in Timestamps : \A unsafe_return \in BOOLEAN :
                (Absent(fromtimestamp(start)) /\ get_by_timestamp(start, unsafe_return))
                    => ret' = AbsentOutcome(unsafe_return)]_vars

(***************************************************************************)
(* C4 as stated: get_by_index(i) gives the slot at position i for          *)
(* 0 <= i < get_length(), and for every other integer i raises             *)
(* DataNotFoundException (strict) or returns None (lenient).               *)
(***************************************************************************)
C4_OutsideOrdinalPositions ==
    \A index \in AnyIndex : \A unsafe_return \in BOOLEAN :
        get_by_index_result(data, index, unsafe_return)
            = IF 0 <= index /\ index < Len(data)
              THEN Returned(data[index + 1])
              ELSE AbsentOutcome(unsafe_return)

(***************************************************************************)
(* C4 as amended: get_by_index(i) gives the slot at position i for         *)
(* 0 <= i < get_length() and the slot at position get_length() + i for     *)
(* -get_length() <= i < 0; for i >= get_length() and for                   *)
(* i < -get_length() it raises DataNotFoundException (strict) or returns   *)
(* None (lenient).                                                         *)
(***************************************************************************)
C4_NegativeIndexCountsFromEnd ==
    \A index \in AnyIndex : \A unsafe_return \in BOOLEAN :
        get_by_index_result(data, index, unsafe_return)
            = IF 0 <= index /\ index < Len(data)
              THEN Returned(data[index + 1])
              ELSE IF -Len(data) <= index /\ index < 0
              THEN Returned(data[Len(data) + index + 1])
              ELSE AbsentOutcome(unsafe_return)

C4_Witness ==
    /\ last = "get_by_index"
    /\ ret = Raised("DataNotFoundException")
    /\ Len(data) >= 2
    /\ NoEmptySlot

(***************************************************************************)
(* C5: when the caller writes into an array a query returned, or assigns a *)
(* field of an Interval a query returned, the Collection holds the same    *)
(* contents as before.                                                     *)
(***************************************************************************)
C5_ReturnedValuesAreNoAliases ==
    [][last' \in {"MutateReturnedArray", "MutateReturnedInterval"}
        => Contents(data', heap') = Contents(data, heap)]_vars

(***************************************************************************)
(* C6: insert(x, i) with 0 <= i < get_length() makes get_by_index(i)       *)
(* return an Interval equal to x, leaves what every other position holds   *)
(* as it was, and leaves get_length() as it was.                           *)
(***************************************************************************)
C6_InsertThenRead ==
    \A x \in ObjArgs : \A index \in AnyIndex :
        (0 <= index /\ index < Len(data))
            => LET after == insert_result(x, index)
                   read == get_by_index_result(after.data, index, FALSE)
               IN  /\ after.ret = Returned(None)
                   /\ read.kind = "value"
                   /\ read.ref /= None
                   /\ after.heap[read.ref] = ArgVal(x)
                   /\ \A j \in 1 .. Len(data) :
                          j /= index + 1
                              => SlotValue(after.data, after.heap, j)
                                     = SlotValue(data, heap, j)
                   /\ Len(after.data) = Len(data)
                   /\ after.length = length

C6_Witness ==
    /\ last = "insert"
    /\ ret = Returned(None)
    /\ Len(data) = MaxLen
    /\ NoEmptySlot
    /\ heap[data[1]].start /= heap[data[2]].start

(***************************************************************************)
(* C7: insert(x, i) with i >= get_length() raises IndexError and leaves    *)
(* the contents and the length of the Collection as they were.             *)
(***************************************************************************)
C7_InsertBeyondEnd ==
    \A x \in ObjArgs : \A index \in AnyIndex :
        index >= Len(data)
            => LET after == insert_result(x, index)
               IN  /\ after.ret = Raised("IndexError")
                   /\ after.data = data
                   /\ after.heap = heap
                   /\ after.length = length

C7_Witness ==
    /\ last = "insert"
    /\ ret = Raised("IndexError")
    /\ Len(data) = MaxLen
    /\ NoEmptySlot

(***************************************************************************)
(* C8: on a Collection every slot of which holds an Interval,              *)
(* get_range(a, b) returns a new array of exactly the stored Intervals     *)
(* with a <= start <= b, in the order the Collection stores them, and      *)
(* leaves the Collection as it was.                                        *)
(***************************************************************************)
C8_GetRange ==
    [][last' = "get_range" =>
        \A start \in Instants : \A end \in Instants :
            (NoEmptySlot /\ get_range(start, end))
                => LET K == {i \in 1 .. Len(data) :
                                /\ start <= heap[data[i]].start
                                /\ heap[data[i]].start <= end}
                   IN  /\ ret'.kind = "array"
                       /\ ~ret'.alias
                       /\ Len(ret'.arr) = Cardinality(K)
                       /\ \A i \in K : ret'.arr[Rank(K, i)] = data[i]
                       /\ data' = data
                       /\ heap' = heap
                       /\ length' = length]_vars

C8_Witness ==
    /\ last = "get_range"
    /\ ret.kind = "array"
    /\ Len(data) = 3
    /\ ret.arr = <<data[1], data[3]>>
    /\ data[1] /= data[3]
    /\ heap[data[1]].start > heap[data[2]].start

(***************************************************************************)
(* C9: remove(x) deletes every slot whose Interval is equal to x, keeps    *)
(* the other slots in their order, sets length to the new number of slots  *)
(* and returns true exactly when a slot was deleted.                       *)
(***************************************************************************)
C9_Remove ==
    \A x \in ObjArgs :
        LET after == remove_result(x)
            K == {i \in 1 .. Len(data) :
                    ~(data[i] /= None /\ heap[data[i]] = ArgVal(x))}
        IN  /\ Len(after.data) = Cardinality(K)
            /\ \A i \in K :
                   SlotValue(after.data, after.heap, Rank(K, i)) = SlotValue(data, heap, i)
            /\ after.length = Cardinality(K)
            /\ after.ret = ReturnedBool(Cardinality(K) < Len(data))

C9_Witness ==
    /\ last = "remove"
    /\ ret = ReturnedBool(TRUE)
    /\ Len(data) = 2
    /\ data[1] /= None
    /\ data[2] = None

(***************************************************************************)
(* C10: remove_by_start(t) deletes every slot whose Interval starts at t,  *)
(* keeps the other slots, and returns true exactly when a slot was         *)
(* deleted.                                                                *)
(***************************************************************************)
C10_RemoveByStart ==
    [][last' = "remove_by_start" =>
        \A start \in Instants :
            remove_by_start(start)
                => LET K == {i \in 1 .. Len(data) :
                                ~(data[i] /= None /\ heap[data[i]].start = start)}
                   IN  /\ Len(data') = Cardinality(K)
                       /\ \A i \in K :
                              SlotValue(data', heap', Rank(K, i)) = SlotValue(data, heap, i)
                       /\ ret' = ReturnedBool(Cardinality(K) < Len(data))]_vars

(***************************************************************************)
(* C11: whatever the Collection holds, set_size(n) makes get_length()      *)
(* return n; add(x) and append(x) of one Interval each make get_length()   *)
(* return one more than before and leave x in the last position, and the   *)
(* two leave the Collection in the same state.                             *)
(***************************************************************************)
\* the array of the one Interval x
Single(x) == [new |-> x, arr |-> <<x.ref>>]

C11_SetSizeThenGrow ==
    /\ \A size \in 0 .. MaxLen :
           get_length_result(set_size_result(size).data) = ReturnedInt(size)
    /\ \A x \in ObjArgs :
           LET added == add_result(x)
               appended == append_result(Single(x))
           IN  /\ get_length_result(added.data).num = get_length_result(data).num + 1
               /\ get_length_result(appended.data).num = get_length_result(data).num + 1
               /\ SlotValue(added.data, added.heap, Len(added.data))
                      = [filled |-> TRUE, val |-> ArgVal(x)]
               /\ SlotValue(appended.data, appended.heap, Len(appended.data))
                      = [filled |-> TRUE, val |-> ArgVal(x)]
               /\ added = appended

C11_Witness ==
    /\ last \in {"add", "append"}
    /\ Len(data) = MaxLen
    /\ data[1] = None
    /\ data[MaxLen - 1] = None
    /\ data[MaxLen] /= None

(***************************************************************************)
(* C12: TestCase.evaluate, on a Collection in which no Interval starts at  *)
(* the instant of the test case's timestamp, raises DataNotFoundException  *)
(* and returns no TestCaseResult, in every state of the Collection.        *)
(***************************************************************************)
C12_AbsentCasePropagates ==
    [][last' = "evaluate" =>
          \A test_case \in TestCases :
              (evaluate(test_case) /\ Absent(fromtimestamp(test_case.timestamp)))
                  => ret' = Raised("DataNotFoundException")]_vars

\* the strict lookup of the test case's timestamp gives an Interval
Resolves(test_case) ==
    get_by_timestamp_result(data, heap, test_case.timestamp, FALSE).kind = "value"

\* the Interval the test case's timestamp resolves to
Resolved(test_case) ==
    heap[get_by_timestamp_result(data, heap, test_case.timestamp, FALSE).ref]

\* the sub-record named by category has the field named by value_field
HasField(test_case) ==
    test_case.value_field \in DOMAIN Resolved(test_case)[test_case.category]

\* the field the test case names, as the Interval holds it
FieldValue(test_case) ==
    Resolved(test_case)[test_case.category][test_case.value_field]

(***************************************************************************)
(* C13: when the test case's timestamp resolves to an Interval and the     *)
(* expected value is None or the value of the named field is None,         *)
(* TestCase.evaluate returns a TestCaseResult whose result is false and    *)
(* raises no exception.                                                    *)
(***************************************************************************)
C13_UnsetValueFails ==
    [][last' = "evaluate" =>
          \A test_case \in TestCases :
              (/\ evaluate(test_case)
               /\ Resolves(test_case)
               /\ HasField(test_case)
               /\ test_case.expected_value = Unset \/ FieldValue(test_case) = Unset)
                  => /\ ret'.kind = "TestCaseResult"
                     /\ ret'.tcr.result = FALSE]_vars

(***************************************************************************)
(* C14: when the test case's timestamp resolves to an Interval,            *)
(* TestCase.evaluate returns a TestCaseResult whose actual_value is the    *)
(* field named by value_field of the sub-record named by category of that  *)
(* Interval, whose description, timestamp and expected_value are those of  *)
(* the test case and whose result is true exactly when expected_value      *)
(* equals actual_value; the Collection is left as it was.                  *)
(***************************************************************************)
C14_EvaluateResult ==
    /\ [](\A test_case \in TestCases :
            (Resolves(test_case) /\ HasField(test_case))
                => LET evaluated == evaluate_result(data, heap, test_case).ret
                   IN  /\ evaluated.kind = "TestCaseResult"
                       /\ evaluated.tcr.actual_value = FieldValue(test_case)
                       /\ evaluated.tcr.description = test_case.description
                       /\ evaluated.tcr.timestamp = test_case.timestamp
                       /\ evaluated.tcr.expected_value = test_case.expected_value
                       /\ evaluated.tcr.result
                              <=> (test_case.expected_value = FieldValue(test_case)))
    /\ [][last' = "evaluate" => UNCHANGED <<heap, data, length>>]_vars

C14_Witness ==
    /\ last = "evaluate"
    /\ ret.kind = "TestCaseResult"
    /\ ret.tcr.result
    /\ ret.tcr.actual_value = 5
    /\ ret.tcr.description = "case a"
    /\ Len(data) >= 2

(***************************************************************************)
(* C15: for every Interval and every right operand, a float or another     *)
(* Interval, the operators +, - and * of the Interval raise                *)
(* NotImplementedError, return nothing and leave the Interval as it was.   *)
(***************************************************************************)
C15_UnsupportedOperators ==
    /\ [](\A d \in Refs : \A value \in RightOperands :
            /\ Data__add__(heap[d], value) = Raised("NotImplementedError")
            /\ Data__sub__(heap[d], value) = Raised("NotImplementedError")
            /\ Data__mul__(heap[d], value) = Raised("NotImplementedError"))
    /\ [][last' \in {"__add__", "__sub__", "__mul__"}
              => /\ ret' = Raised("NotImplementedError")
                 /\ UNCHANGED <<heap, data, length>>]_vars

C15_Witness ==
    /\ last = "__mul__"
    /\ ret = Raised("NotImplementedError")
    /\ \E d \in Refs : heap[d].production.pv > 0 /\ heap[d].power.pv > 0

(***************************************************************************)
(* C16: an Interval x divided by a float v other than zero gives a new     *)
(* Interval with the start of x, in which every field of production, of    *)
(* power and of consumption is the field of x divided by v and the three   *)
(* sub-records are a Production, a Power and a Consumption; x and its      *)
(* sub-records are left as they were.                                      *)
(***************************************************************************)
C16_ScalarDivision ==
    /\ [](\A d \in Refs : \A v \in Scalars \ {0} :
            LET x == heap[d]
                quotient == Data__truediv__(x, Float(v))
            IN  /\ quotient.kind = "object"
                /\ quotient.obj.start = x.start
                /\ quotient.obj.production.class = "Production"
                /\ quotient.obj.power.class = "Power"
                /\ quotient.obj.consumption.class = "Consumption"
                /\ \A category \in {"production", "power", "consumption"} :
                       /\ DOMAIN quotient.obj[category] = DOMAIN x[category]
                       /\ \A k \in Fields(x[category]) :
                              quotient.obj[category][k] * v = x[category][k])
    /\ [][last' = "__truediv__" => UNCHANGED <<heap, data, length>>]_vars

C16_Witness ==
    /\ last = "__truediv__"
    /\ ret.kind = "object"
    /\ ret.obj.production.pv = 2000000
    /\ ret.obj.power.nuclear > 0
    /\ ret.obj.consumption.load > 0
    /\ \E d \in Refs : heap[d].production.pv = 4000000 /\ heap[d].start = ret.obj.start

(***************************************************************************)
(* C17: every Interval the program produces, by Data(start=...), by the    *)
(* division of an Interval or by parse_smard / parse_energycharts, has     *)
(* end = start + 15 minutes, and so has every Interval the Collection      *)
(* holds after any sequence of its operations.                             *)
(***************************************************************************)
C17_EndIsStartPlus15Minutes ==
    /\ \A d \in Refs : heap[d].end = heap[d].start + FifteenMinutes
    /\ ret.kind = "object" => ret.obj.end = ret.obj.start + FifteenMinutes
    /\ \A x \in Constructed : ArgVal(x).end = ArgVal(x).start + FifteenMinutes

C17_Witness ==
    /\ last = "__truediv__"
    /\ ret.kind = "object"
    /\ Len(heap) = MaxLen
    /\ \E d \in Refs : heap[d].production.pv = 0
    /\ \E d \in Refs : heap[d].production.pv > 0 /\ heap[d].power.pv > 0
    /\ \E d \in Refs : heap[d].production.pv > 0 /\ heap[d].power.pv = 0

(***************************************************************************)
(* C18: for every raw row, whichever of its columns, the timestamp column  *)
(* included, are missing or malformed, parse_smard and parse_energycharts  *)
(* return an Interval and raise nothing.                                   *)
(***************************************************************************)
C18_ParserNeverRaises ==
    [][last' \in {"parse_smard", "parse_energycharts"} => ret'.kind = "object"]_vars

\* x MWh in Wh (smard); x MW over a quarter of an hour in Wh (energycharts)
UnitNormalized(provider, x) ==
    IF provider = "smard" THEN x * 1000000 ELSE (x * 1000000) \div 4

\* what a field holds once the row is parsed, when a missing column costs
\* only the field it feeds
FieldAfterParse(statements, provider, vals, category, field) ==
    IF \E k \in 1 .. Len(statements) :
           /\ statements[k].op = "assign"
           /\ statements[k].category = category
           /\ statements[k].field = field
           /\ \A i \in 1 .. Len(statements[k].columns) :
                  statements[k].columns[i] \in DOMAIN vals
    THEN LET k == CHOOSE k \in 1 .. Len(statements) :
                      /\ statements[k].op = "assign"
                      /\ statements[k].category = category
                      /\ statements[k].field = field
         IN  UnitNormalized(provider, SumOfCells(vals, statements[k].columns, 1))
    ELSE 0

\* every field of the Interval is what FieldAfterParse says
ParsedFieldByField(o, statements, provider, vals) ==
    \A category \in {"production", "power", "consumption"} :
        \A field \in Fields(o[category]) :
            o[category][field] = FieldAfterParse(statements, provider, vals, category, field)

(***************************************************************************)
(* C19: given a row that lacks one source column, the parser returns an    *)
(* Interval in which the field that column feeds is 0.0 and every other    *)
(* field holds the unit-normalized value of its columns (x 1,000,000 for   *)
(* smard, x 1,000,000 then / 4 for energycharts), as it does when no       *)
(* column is missing.                                                      *)
(***************************************************************************)
C19_MissingColumnCostsOneField ==
    [][/\ last' = "parse_smard" =>
            \A k \in 1 .. Len(SmardColumns) :
                LET vals == Lacking(CompleteRow(SmardColumns, T0 - LocalUtcOffset),
                                    SmardColumns[k])
                IN  parse_smard(vals)
                        => /\ ret'.kind = "object"
                           /\ ParsedFieldByField(ret'.obj, SmardStatements, "smard", vals)
       /\ last' = "parse_energycharts" =>
            \A k \in 1 .. Len(EnergychartsColumns) :
                LET vals == Lacking(CompleteRow(EnergychartsColumns, T0 - LocalUtcOffset),
                                    EnergychartsColumns[k])
                IN  parse_energycharts(vals)
                        => /\ ret'.kind = "object"
                           /\ ParsedFieldByField(ret'.obj, EnergychartsStatements,
                                                 "energycharts", vals)]_vars

\* rows that have every column are parsed field by field as C19 says
CompleteRowsNormalized ==
    /\ \A unix_seconds \in Timestamps :
           LET vals == CompleteRow(SmardColumns, unix_seconds)
           IN  ParsedFieldByField(parse_smard_result(vals).obj, SmardStatements,
                                  "smard", vals)
    /\ \A unix_seconds \in Timestamps :
           LET vals == CompleteRow(EnergychartsColumns, unix_seconds)
           IN  ParsedFieldByField(parse_energycharts_result(vals).obj,
                                  EnergychartsStatements, "energycharts", vals)

\* every attached test case has a matching Interval whose field it names
AllResolve ==
    \A k \in 1 .. Len(test_cases) :
        Resolves(test_cases[k]) /\ HasField(test_cases[k])

\* what evaluating the k-th attached test case reports
ReportOf(k) == evaluate_result(data, heap, test_cases[k]).ret.tcr

LoadDataCalls == <<"load_dataset smard", "test_dataset smard", "load_dataset energycharts">>

(***************************************************************************)
(* C21: in any sequence of get_data and load_data calls on a DataManager,  *)
(* is_cached becomes true only when the load of smard, the validation of   *)
(* smard and the load of energycharts have returned, in that order, in the *)
(* running call; while a call runs is_cached is false; once is_cached is   *)
(* true no step of a later call modifies a Collection or is_cached; and a  *)
(* step of the validation that raises ends the call with is_cached false.  *)
(***************************************************************************)
C21_CachedOnlyAfterLoadAndValidation ==
    /\ [](frame.at /= "idle" => ~is_cached)
    /\ [][~is_cached /\ is_cached' => frame.done = LoadDataCalls]_vars
    /\ [][is_cached => UNCHANGED <<heap, data, length, test_cases, energycharts,
                                   is_cached>>]_vars
    /\ [][frame.at = "testing" /\ ret'.kind = "raise"
            => ~is_cached' /\ frame'.at = "idle"]_vars

\* load_data has filled both Collections, one test case having failed its
\* equality, and a later get_data has returned them
C21_Witness ==
    /\ is_cached
    /\ frame.method = "load_data"
    /\ last = "get_data"
    /\ ret.kind = "Collections"
    /\ Len(data) = 2
    /\ Len(energycharts) = 2
    /\ \E k \in 1 .. Len(test_cases) :
           test_cases[k].actual_value /= test_cases[k].expected_value

\* a call in which the validation raised has ended
ValidationRaised ==
    /\ last = "test_dataset"
    /\ ret.kind = "raise"
    /\ frame.at = "idle"
    /\ ~is_cached

====
